---- MODULE Spec2Model ----
(***************************************************************************)
(* Model of batch_whisper_subtitles.py: the naming policy (to_snake_case), *)
(* and the asynchronous pipeline main / process_video / run_whisper_process*)
(* / embed_subtitles / clean_whisper_files_for_video.                      *)
(*                                                                         *)
(* File names are sequences of one-character strings, so that the slug is  *)
(* computed character by character as the code computes it.                *)
(***************************************************************************)
EXTENDS Integers, Sequences, FiniteSets, TLC

\* ------------------------------------------------------------------------
\* Bounds of the model
\* ------------------------------------------------------------------------

\* longest stem of an input file name <stem>.mp4 in the naming checks
MaxStem == 2
\* longest arbitrary file name x in the idempotence check
MaxLen == 3
\* longest extension body (characters after the dot) in the idempotence check
MaxExtLen == 1
\* most input videos in the working directory
MaxFiles == 2
\* number of files (intermediates or output videos) left by an earlier run
MaxPre == 1
\* most segments in a transcription result
MaxSegs == 2

\* ------------------------------------------------------------------------
\* Characters
\* ------------------------------------------------------------------------

UpperLetters == <<"A","B","C","D","E","F","G","H","I","J","K","L","M",
                  "N","O","P","Q","R","S","T","U","V","W","X","Y","Z">>
LowerLetters == <<"a","b","c","d","e","f","g","h","i","j","k","l","m",
                  "n","o","p","q","r","s","t","u","v","w","x","y","z">>
Digits == {"0","1","2","3","4","5","6","7","8","9"}

Range(s) == {s[k] : k \in DOMAIN s}

\* a character class without the digits, [a-z]
IsSlugCharNoDigits(c) == c \in Range(LowerLetters)
\* the characters the regular expression class [a-z0-9] accepts
IsSlugChar(c) == c \in Range(LowerLetters) \cup Digits

\* str.lower() on one character (the accented letter is already lower case)
LowerChar(c) ==
    IF \E k \in 1..26 : UpperLetters[k] = c
    THEN LowerLetters[CHOOSE k \in 1..26 : UpperLetters[k] = c]
    ELSE c

Lower(s) == [k \in 1..Len(s) |-> LowerChar(s[k])]

\* ------------------------------------------------------------------------
\* to_snake_case
\* ------------------------------------------------------------------------

HasDot(s) == \E k \in 1..Len(s) : s[k] = "."
LastDot(s) == CHOOSE k \in 1..Len(s) :
                  s[k] = "." /\ \A m \in (k+1)..Len(s) : s[m] # "."

\* a slug that keeps the extension
RSplitHeadKeepAll(s) == s
\* filename.rsplit('.', 1)[0]
RSplitHead(s) == IF HasDot(s) THEN SubSeq(s, 1, LastDot(s) - 1) ELSE s

\* os.path.splitext(video_file)[0] for a name whose stem does not begin with
\* a dot (glob("*.mp4") does not match hidden files)
SplitExtHead(s) == IF HasDot(s) THEN SubSeq(s, 1, LastDot(s) - 1) ELSE s

RECURSIVE SkipOther(_)
SkipOther(s) ==
    IF s = <<>> \/ IsSlugChar(Head(s)) THEN s ELSE SkipOther(Tail(s))

\* re.sub(r'[^a-z0-9]+', '-', s): every maximal run of other characters
\* becomes one hyphen
RECURSIVE ReSub(_)
ReSub(s) ==
    IF s = <<>> THEN <<>>
    ELSE IF IsSlugChar(Head(s)) THEN <<Head(s)>> \o ReSub(Tail(s))
    ELSE <<"-">> \o ReSub(SkipOther(Tail(s)))

RECURSIVE LStrip(_)
LStrip(s) == IF s # <<>> /\ Head(s) = "-" THEN LStrip(Tail(s)) ELSE s

RECURSIVE RStrip(_)
RStrip(s) ==
    IF s # <<>> /\ s[Len(s)] = "-" THEN RStrip(SubSeq(s, 1, Len(s) - 1)) ELSE s

\* str.strip('-')
Strip(s) == LStrip(RStrip(s))

to_snake_case(filename) == Strip(ReSub(Lower(RSplitHead(filename))))

Suffix == <<"_","s","u","b","t","i","t","l","e","d","_","e","n","_","u","s",
            ".","m","p","4">>

\* an output name that does not depend on the input name
OutputFileFixed(video_file) == Suffix
\* output_file of embed_subtitles
OutputFile(video_file) == to_snake_case(video_file) \o Suffix

\* ------------------------------------------------------------------------
\* The working directory
\* ------------------------------------------------------------------------

Mp4 == <<".","m","p","4">>

\* candidate input videos, in the order glob.glob("*.mp4") lists them:
\* "a b.mp4", "a-b.mp4" (both have the slug "a-b") and "c.mp4"
AllNames == << <<"a"," ","b">> \o Mp4, <<"a","-","b">> \o Mp4, <<"c">> \o Mp4 >>
Videos == Range(AllNames)
Pos(v) == CHOOSE k \in 1..Len(AllNames) : AllNames[k] = v

\* the extensions clean_whisper_files_for_video walks through, in order
Exts == <<".srt", ".tsv", ".txt", ".vtt", ".json">>

\* f"{base_name}{ext}", kept as the pair (base_name, ext)
InterPath(video_file, ext) == <<SplitExtHead(video_file), ext>>

\* the paths of the videos considered, computed once
InterPathOf == [v \in Videos |-> [e \in Range(Exts) |-> InterPath(v, e)]]
OutputFileOf == [v \in Videos |-> OutputFile(v)]
SlugOf == [v \in Videos |-> to_snake_case(v)]

SrtPath(video_file) == InterPathOf[video_file][".srt"]

InterPaths == {InterPath(v, Exts[k]) : v \in Videos, k \in 1..Len(Exts)}
OutPaths == {OutputFile(v) : v \in Videos}

\* what a path holds: nothing, a file left by an earlier run, a file this
\* run wrote completely, a file this run opened for writing and did not
\* complete
Absent == "absent"
Old == "old"
New == "new"
Partial == "partial"

\* os.cpu_count() of the machines considered (the last is above the ceiling)
CpuCounts == {1, 2, 8}
\* the ceiling of min(MAX_WORKERS, 6)
Ceiling == 6

Min(a, b) == IF a < b THEN a ELSE b

VARIABLES
    mainPc,      \* where main() is
    dir,         \* the *.mp4 files of the working directory
    cpu_count,   \* MAX_WORKERS
    permits,     \* value of the asyncio.Semaphore
    capacity,    \* max_concurrent, the semaphore's initial value
    poolSize,    \* max_workers of the ProcessPoolExecutor
    poolBroken,  \* the executor has lost a worker process
    pc,          \* where each process_video task is
    results,     \* what each task returned to asyncio.gather
    inter,       \* the intermediate files on disk
    outv,        \* the output videos on disk
    inter0,      \* the intermediate files when the run began
    outv0,       \* the output videos when the run began
    whisperEv,   \* how the transcription of each video ended
    ffEv,        \* what the ffmpeg subprocess of each video did
    embedEv,     \* what embed_subtitles found for each video
    cleanEv,     \* how clean_whisper_files_for_video ended for each video
    outAtCheck,  \* what the output path held when embed_subtitles looked
    launched,    \* the commands check_dependencies has run with --version
    ffExit,      \* the exit status of the ffmpeg subprocess of each video
    nam,         \* naming check: two input names and their output files
    idem,        \* idempotence check: a name, an extension, the two slugs
    srt          \* subtitle check: a list of segments and its encoding

pipeVars == <<mainPc, dir, cpu_count, permits, capacity, poolSize, poolBroken,
              pc, results, inter, outv, inter0, outv0,
              whisperEv, ffEv, embedEv, cleanEv, outAtCheck, launched, ffExit>>
vars == <<mainPc, dir, cpu_count, permits, capacity, poolSize, poolBroken,
          pc, results, inter, outv, inter0, outv0,
          whisperEv, ffEv, embedEv, cleanEv, outAtCheck, launched, ffExit, nam, idem, srt>>

NamOff == [pc |-> "off"]
IdemOff == [pc |-> "off"]
SrtOff == [pc |-> "off"]

\* ------------------------------------------------------------------------
\* Initial state: main() has not started
\* ------------------------------------------------------------------------

\* the intermediates an earlier run may have left: the subtitle file, which
\* run_whisper_process writes again, and the transcript, which only
\* clean_whisper_files_for_video touches
LeftExts == {".srt", ".txt"}
LeftInterPaths == {InterPath(v, e) : v \in Videos, e \in LeftExts}

\* the files an earlier run has left: at most MaxPre of them
LeftOvers ==
    {<<I, O>> \in
        {S \in SUBSET LeftInterPaths : Cardinality(S) <= MaxPre} \X
        {S \in SUBSET OutPaths : Cardinality(S) <= MaxPre} :
        Cardinality(I) + Cardinality(O) <= MaxPre}

PipeInit ==
    /\ mainPc = "start"
    /\ dir \in {S \in SUBSET Videos : Cardinality(S) <= MaxFiles}
    /\ cpu_count \in CpuCounts
    /\ permits = 0
    /\ capacity = 0
    /\ poolSize = 0
    /\ poolBroken = FALSE
    /\ pc = [v \in Videos |-> "idle"]
    /\ results = [v \in Videos |-> <<>>]
    /\ \E lo \in LeftOvers :
          /\ inter = [p \in InterPaths |-> IF p \in lo[1] THEN Old ELSE Absent]
          /\ outv = [p \in OutPaths |-> IF p \in lo[2] THEN Old ELSE Absent]
    /\ inter0 = inter
    /\ outv0 = outv
    /\ whisperEv = [v \in Videos |-> "none"]
    /\ ffEv = [v \in Videos |-> "none"]
    /\ embedEv = [v \in Videos |-> "none"]
    /\ cleanEv = [v \in Videos |-> "none"]
    /\ outAtCheck = [v \in Videos |-> "none"]
    /\ launched = {}
    /\ ffExit = [v \in Videos |-> "none"]

\* the pipeline does not run in the naming checks
PipeOff ==
    /\ mainPc = "off"
    /\ dir = {}
    /\ cpu_count = 1
    /\ permits = 0
    /\ capacity = 0
    /\ poolSize = 0
    /\ poolBroken = FALSE
    /\ pc = [v \in Videos |-> "idle"]
    /\ results = [v \in Videos |-> <<>>]
    /\ inter = [p \in InterPaths |-> Absent]
    /\ outv = [p \in OutPaths |-> Absent]
    /\ inter0 = inter
    /\ outv0 = outv
    /\ whisperEv = [v \in Videos |-> "none"]
    /\ ffEv = [v \in Videos |-> "none"]
    /\ embedEv = [v \in Videos |-> "none"]
    /\ cleanEv = [v \in Videos |-> "none"]
    /\ outAtCheck = [v \in Videos |-> "none"]
    /\ launched = {}
    /\ ffExit = [v \in Videos |-> "none"]

Init == PipeInit /\ nam = NamOff /\ idem = IdemOff /\ srt = SrtOff

\* ------------------------------------------------------------------------
\* main
\* ------------------------------------------------------------------------

\* required_cmds of check_dependencies
RequiredCmds == {"python3", "ffmpeg"}

\* a check that lets the run go on whatever is missing
DependenciesMetAlways(installed) == TRUE
\* not missing_cmds
DependenciesMet(installed) == RequiredCmds \subseteq installed

\* if not await check_dependencies(): return. Each required command that is
\* installed is run with --version (lines 59-64); a command that is not
\* raises FileNotFoundError and nothing is run for it
CheckDependencies ==
    /\ mainPc = "start"
    /\ \E installed \in SUBSET RequiredCmds :
          /\ launched' = installed
          /\ mainPc' = IF DependenciesMet(installed) THEN "discover" ELSE "aborted"
    /\ UNCHANGED <<dir, cpu_count, permits, capacity, poolSize, poolBroken, pc,
                   results, inter, outv, inter0, outv0,
                   whisperEv, ffEv, embedEv, cleanEv, outAtCheck, ffExit,
                   nam, idem, srt>>

\* max_concurrent = min(MAX_WORKERS, 6)
MaxConcurrent == Min(cpu_count, Ceiling)

\* a pool with half as many workers as the semaphore has permits
PoolWorkersHalved(max_concurrent) == (max_concurrent + 1) \div 2
\* ProcessPoolExecutor(max_workers=max_concurrent)
PoolWorkers(max_concurrent) == max_concurrent

\* a test that never takes the early return
NoVideosNever(video_files) == FALSE
\* if not video_files
NoVideos(video_files) == video_files = {}

\* video_files = glob.glob("*.mp4"); the semaphore, the pool and one task
\* per video are created
Discover ==
    /\ mainPc = "discover"
    /\ IF NoVideos(dir)
       THEN /\ mainPc' = "empty"
            /\ UNCHANGED <<permits, capacity, poolSize, pc>>
       ELSE /\ mainPc' = "gather"
            /\ capacity' = MaxConcurrent
            /\ permits' = MaxConcurrent
            /\ poolSize' = PoolWorkers(MaxConcurrent)
            /\ pc' = [v \in Videos |-> IF v \in dir THEN "pending" ELSE "idle"]
    /\ UNCHANGED <<dir, cpu_count, poolBroken, results, inter, outv,
                   inter0, outv0, whisperEv, ffEv, embedEv, cleanEv, outAtCheck, launched, ffExit, nam, idem, srt>>

\* a join that returns with the first task
AllReturnedAny == \E v \in dir : pc[v] = "done"
\* await asyncio.gather(*tasks) returns when every task has returned
AllReturned == \A v \in dir : pc[v] = "done"

GatherReturn ==
    /\ mainPc = "gather"
    /\ AllReturned
    /\ mainPc' = "done"
    /\ UNCHANGED <<dir, cpu_count, permits, capacity, poolSize, poolBroken, pc,
                   results, inter, outv, inter0, outv0,
                   whisperEv, ffEv, embedEv, cleanEv, outAtCheck, launched, ffExit, nam, idem, srt>>

\* ------------------------------------------------------------------------
\* process_video
\* ------------------------------------------------------------------------

\* the tasks between "async with semaphore" and its exit
InGate == {v \in Videos :
             pc[v] \in {"queued", "running", "transcribed", "embedding", "exited"}}

\* Semaphore.acquire: a permit is free and no earlier task is still waiting
\* (the tasks reach the semaphore in list order and waiters are woken first
\* in, first out)
FirstWaiting(v) == \A w \in Videos : pc[w] = "pending" => Pos(v) <= Pos(w)
\* an acquire that does not look at the semaphore's value
CanAcquireUnbounded(v) == FirstWaiting(v)
CanAcquire(v) == permits > 0 /\ FirstWaiting(v)

\* a release that does not give the permit back
ReleaseNothing(p) == p
\* Semaphore.release at the exit of "async with"
Release(p) == p + 1

\* a return that gives the permit back on the successful path only
ReturnKeepingPermitOnFailure(v, ok, p) ==
    /\ pc' = [pc EXCEPT ![v] = "done"]
    /\ results' = [results EXCEPT ![v] = Append(@, ok)]
    /\ permits' = IF ok THEN Release(p) ELSE p

\* return ok, video_file: the task ends, the permit p it holds goes back
Return(v, ok, p) ==
    /\ pc' = [pc EXCEPT ![v] = "done"]
    /\ results' = [results EXCEPT ![v] = Append(@, ok)]
    /\ permits' = Release(p)

\* lines 145-149: the permit is taken and the transcription is handed to the
\* executor; submitting to a broken pool raises, which line 163 catches
Acquire(v) ==
    /\ mainPc = "gather"
    /\ pc[v] = "pending"
    /\ CanAcquire(v)
    /\ IF poolBroken
       THEN /\ whisperEv' = [whisperEv EXCEPT ![v] = "broken"]
            /\ Return(v, FALSE, permits - 1)
       ELSE /\ pc' = [pc EXCEPT ![v] = "queued"]
            /\ permits' = permits - 1
            /\ UNCHANGED <<whisperEv, results>>
    /\ UNCHANGED <<mainPc, dir, cpu_count, capacity, poolSize, poolBroken,
                   inter, outv, inter0, outv0, ffEv, embedEv, cleanEv, outAtCheck, launched, ffExit, nam, idem, srt>>

\* a free worker process of the pool takes the call from the queue
Busy == Cardinality({v \in Videos : pc[v] = "running"})

WorkerPickup(v) ==
    /\ pc[v] = "queued"
    /\ ~poolBroken
    /\ Busy < poolSize
    /\ pc' = [pc EXCEPT ![v] = "running"]
    /\ UNCHANGED <<mainPc, dir, cpu_count, permits, capacity, poolSize,
                   poolBroken, results, inter, outv, inter0, outv0,
                   whisperEv, ffEv, embedEv, cleanEv, outAtCheck, launched, ffExit, nam, idem, srt>>

\* ------------------------------------------------------------------------
\* run_whisper_process, in a worker process of the pool
\* ------------------------------------------------------------------------

\* how a call can end: "ok" (lines 98-109), "modelerr" (an exception before
\* open(), lines 98-103), "writeerr" (an exception after open() created or
\* truncated the file, lines 104-107)
WhisperEnds == {"ok", "modelerr", "writeerr"}

\* what <base>.srt holds after the call
SrtAfter(old, end) ==
    CASE end = "ok" -> New
      [] end = "writeerr" -> Partial
      [] OTHER -> old

WhisperRun(v) ==
    /\ pc[v] = "running"
    /\ \E end \in WhisperEnds :
          /\ whisperEv' = [whisperEv EXCEPT ![v] = end]
          /\ inter' = [inter EXCEPT ![SrtPath(v)] = SrtAfter(@, end)]
    /\ pc' = [pc EXCEPT ![v] = "transcribed"]
    /\ UNCHANGED <<mainPc, dir, cpu_count, permits, capacity, poolSize,
                   poolBroken, results, outv, inter0, outv0,
                   ffEv, embedEv, cleanEv, outAtCheck, launched, ffExit, nam, idem, srt>>

\* the worker process running the call dies (out of memory, a fault in
\* native code): the executor marks the pool broken, fails every call that
\* is queued or running with BrokenProcessPool and terminates the other
\* workers; a worker stopped after open() leaves its file incomplete
InPool == {w \in Videos : pc[w] \in {"queued", "running"}}

WorkerCrash(v) ==
    /\ pc[v] = "running"
    /\ poolBroken' = TRUE
    /\ whisperEv' = [w \in Videos |->
                        IF w = v THEN "crash"
                        ELSE IF w \in InPool THEN "broken"
                        ELSE whisperEv[w]]
    /\ pc' = [w \in Videos |-> IF w \in InPool THEN "transcribed" ELSE pc[w]]
    /\ \E opened \in SUBSET {w \in Videos : pc[w] = "running"} :
          inter' = [p \in InterPaths |->
                       IF \E w \in opened : p = SrtPath(w)
                       THEN Partial ELSE inter[p]]
    /\ UNCHANGED <<mainPc, dir, cpu_count, permits, capacity, poolSize,
                   results, outv, inter0, outv0,
                   ffEv, embedEv, cleanEv, outAtCheck, launched, ffExit, nam, idem, srt>>

\* ------------------------------------------------------------------------
\* process_video, after the executor's future is done (lines 149-155) and
\* embed_subtitles up to the start of ffmpeg (lines 117-124)
\* ------------------------------------------------------------------------

\* the future raised instead of returning
Raised(v) == whisperEv[v] \in {"crash", "broken"}
\* srt_file, "" being the failure marker
SrtFile(v) == IF whisperEv[v] = "ok" THEN SrtPath(v) ELSE ""
\* a check of the transcription's result that lets everything pass
NoSubtitleNever(v) == FALSE
\* not srt_file or not os.path.exists(srt_file)
NoSubtitle(v) == SrtFile(v) = "" \/ inter[SrtFile(v)] = Absent

TranscribeReturn(v) ==
    /\ pc[v] = "transcribed"
    /\ IF Raised(v) \/ NoSubtitle(v)
       THEN /\ Return(v, FALSE, permits)
            /\ UNCHANGED embedEv
       ELSE \E started \in BOOLEAN :
               IF started
               THEN /\ pc' = [pc EXCEPT ![v] = "embedding"]
                    /\ UNCHANGED <<results, permits, embedEv>>
               ELSE /\ embedEv' = [embedEv EXCEPT ![v] = "launchfail"]
                    /\ Return(v, FALSE, permits)
    /\ UNCHANGED <<mainPc, dir, cpu_count, capacity, poolSize, poolBroken,
                   inter, outv, inter0, outv0,
                   whisperEv, ffEv, cleanEv, outAtCheck, launched, ffExit, nam, idem, srt>>

\* process.returncode: success or failure; ffmpeg can fail and leave an
\* output file, and it does not end with success without having written one
ExitStatuses == {"zero", "nonzero"}

\* the ffmpeg subprocess ends, having written the output file or not
FfmpegExit(v) ==
    /\ pc[v] = "embedding"
    /\ \E wrote \in BOOLEAN, status \in ExitStatuses :
          /\ wrote \/ status = "nonzero"
          /\ ffEv' = [ffEv EXCEPT ![v] = IF wrote THEN "wrote" ELSE "nooutput"]
          /\ ffExit' = [ffExit EXCEPT ![v] = status]
          /\ outv' = [outv EXCEPT ![OutputFileOf[v]] = IF wrote THEN New ELSE @]
    /\ pc' = [pc EXCEPT ![v] = "exited"]
    /\ UNCHANGED <<mainPc, dir, cpu_count, permits, capacity, poolSize,
                   poolBroken, results, inter, inter0, outv0,
                   whisperEv, embedEv, cleanEv, outAtCheck, launched,
                   nam, idem, srt>>

\* ------------------------------------------------------------------------
\* embed_subtitles after communicate() (line 126),
\* clean_whisper_files_for_video and the end of process_video (157-165)
\* ------------------------------------------------------------------------

\* a result taken from the exit status of ffmpeg
EmbedResultByExitStatus(v) == ffExit[v] = "zero"
\* output_file if os.path.exists(output_file) else None
EmbedResult(v) == outv[OutputFileOf[v]] # Absent

\* a cleanup that does not look at what embed_subtitles returned
CleansAlways(embedded) == TRUE
\* if output_file: await clean_whisper_files_for_video(video_file)
Cleans(embedded) == embedded

\* os.remove can raise at any file that exists; 0 stands for no fault
FaultPoints(v) ==
    {0} \cup {k \in 1..Len(Exts) : inter[InterPathOf[v][Exts[k]]] # Absent}

\* the intermediates after the loop of lines 136-140, left at extension
\* number fault by an exception of os.remove (never, when fault = 0)
clean_whisper_files_for_video(v, fault) ==
    [p \in InterPaths |->
        IF \E k \in 1..Len(Exts) :
              /\ p = InterPathOf[v][Exts[k]]
              /\ fault = 0 \/ k < fault
        THEN Absent ELSE inter[p]]

\* the outcome of the task when cleanup ended with or without an exception:
\* an exception reaches "except Exception" of line 163
OutcomeAfterCleanup(fault) == fault = 0

EmbedReturn(v) ==
    /\ pc[v] = "exited"
    /\ outAtCheck' = [outAtCheck EXCEPT ![v] = outv[OutputFileOf[v]]]
    /\ embedEv' = [embedEv EXCEPT ![v] =
                      IF EmbedResult(v) THEN "path" ELSE "none_returned"]
    /\ IF Cleans(EmbedResult(v))
       THEN \E fault \in FaultPoints(v) :
               /\ inter' = clean_whisper_files_for_video(v, fault)
               /\ cleanEv' = [cleanEv EXCEPT ![v] =
                                 IF fault = 0 THEN "ran" ELSE "fault"]
               /\ Return(v, EmbedResult(v) /\ OutcomeAfterCleanup(fault), permits)
       ELSE /\ Return(v, FALSE, permits)
            /\ UNCHANGED <<inter, cleanEv>>
    /\ UNCHANGED <<mainPc, dir, cpu_count, capacity, poolSize, poolBroken,
                   outv, inter0, outv0, whisperEv, ffEv, launched, ffExit, nam, idem, srt>>

\* ------------------------------------------------------------------------
\* The pipeline
\* ------------------------------------------------------------------------

Next ==
    \/ CheckDependencies
    \/ Discover
    \/ GatherReturn
    \/ \E v \in Videos : Acquire(v)
    \/ \E v \in Videos : WorkerPickup(v)
    \/ \E v \in Videos : WhisperRun(v)
    \/ \E v \in Videos : WorkerCrash(v)
    \/ \E v \in Videos : TranscribeReturn(v)
    \/ \E v \in Videos : FfmpegExit(v)
    \/ \E v \in Videos : EmbedReturn(v)

Spec == Init /\ [][Next]_vars


\* ------------------------------------------------------------------------
\* The naming policy on its own: inputs drawn from bounded sets of names
\* ------------------------------------------------------------------------

\* one lower-case letter, its upper case, a digit, a letter outside ASCII
\* (kept under a name, being one character of the file name), a hyphen
\* and the dot
Chars == {"a", "A", "1", "e-acute", "-", "."}

\* str.isalnum() on one character
IsAlnum(c) ==
    c \in Range(LowerLetters) \cup Range(UpperLetters) \cup Digits \cup {"e-acute"}
\* the ASCII letters and digits
IsAsciiAlnum(c) ==
    c \in Range(LowerLetters) \cup Range(UpperLetters) \cup Digits

Strings(n) == UNION {[1..k -> Chars] : k \in 0..n}

\* the names glob("*.mp4") can return: a stem that does not begin with a
\* dot, followed by .mp4
Stems == {s \in Strings(MaxStem) : s # <<>> /\ s[1] # "."}
VideoNames == {s \o Mp4 : s \in Stems}

\* an extension: a dot and characters other than the dot
ExtStrings ==
    {<<".">> \o t : t \in UNION {[1..k -> Chars \ {"."}] : k \in 0..MaxExtLen}}

NamingInit ==
    /\ PipeOff
    /\ idem = IdemOff
    /\ srt = SrtOff
    /\ \E a \in VideoNames, b \in VideoNames :
          nam = [pc |-> "input", a |-> a, b |-> b, outA |-> <<>>, outB |-> <<>>]

\* line 118 for each of the two names
ComputeOutputs ==
    /\ nam.pc = "input"
    /\ nam' = [nam EXCEPT !.pc = "named",
                          !.outA = OutputFile(nam.a),
                          !.outB = OutputFile(nam.b)]
    /\ UNCHANGED <<pipeVars, idem, srt>>

NamingNext == ComputeOutputs

NamingSpec == NamingInit /\ [][NamingNext]_vars

SlugInit ==
    /\ PipeOff
    /\ nam = NamOff
    /\ srt = SrtOff
    /\ \E x \in Strings(MaxLen), e \in ExtStrings :
          idem = [pc |-> "input", x |-> x, e |-> e, once |-> <<>>, twice |-> <<>>]

\* to_snake_case applied to x, then to its own result with e appended
ApplyTwice ==
    /\ idem.pc = "input"
    /\ idem' = [idem EXCEPT !.pc = "slugged",
                            !.once = to_snake_case(idem.x),
                            !.twice = to_snake_case(to_snake_case(idem.x) \o idem.e)]
    /\ UNCHANGED <<pipeVars, nam, srt>>

SlugNext == ApplyTwice

SlugSpec == SlugInit /\ [][SlugNext]_vars

\* ------------------------------------------------------------------------
\* Properties
\* ------------------------------------------------------------------------

Outcome(v) == results[v][1]
Finished(v) == pc[v] = "done"
Inter(v, e) == inter[InterPathOf[v][e]]
ExtSet == Range(Exts)

\* the unit's own stages all succeeded: its transcription returned a path,
\* ffmpeg started and the output file was written by its own subprocess or
\* was there when the run began, and no deletion raised
OwnSuccess(v) ==
    /\ whisperEv[v] = "ok"
    /\ embedEv[v] # "launchfail"
    /\ ffEv[v] = "wrote" \/ (ffEv[v] = "nooutput" /\ outv0[OutputFileOf[v]] # Absent)
    /\ cleanEv[v] # "fault"

\* C1: failure isolation. Whatever happens to the other units, every unit
\* that has finished did run its transcription (it was not refused or cut
\* short because another unit's worker failed) and its outcome is the one
\* its own stages produce; and main leaves gather only when all units have
\* finished.
FailureIsolation ==
    /\ \A v \in dir :
          Finished(v) =>
             /\ whisperEv[v] # "broken"
             /\ Outcome(v) <=> OwnSuccess(v)
    /\ mainPc = "done" => \A v \in dir : Finished(v)

\* C2: the number of units inside "async with semaphore" never exceeds
\* min(os.cpu_count(), 6), and that is the value the semaphore is created
\* with.
ConcurrencyInvariant ==
    /\ Cardinality(InGate) <= Min(cpu_count, Ceiling)
    /\ mainPc \in {"gather", "done"} => capacity = Min(cpu_count, Ceiling)

\* the gate is full while a unit is still waiting for a permit
GateFullWitness ==
    /\ Cardinality(InGate) = Min(cpu_count, Ceiling)
    /\ \E v \in dir : pc[v] = "pending"

\* an intermediate file that was on disk at some point of the run
EverOnDisk(v, e) ==
    \/ inter0[InterPathOf[v][e]] # Absent
    \/ Inter(v, e) # Absent
    \/ e = ".srt" /\ whisperEv[v] \in {"ok", "writeerr"}

\* C3: cleanup invariant. At the end of the run, for every input file, each
\* intermediate file of its base name that was on disk during the run is
\* absent if and only if embedding reported success for that file; when
\* embedding failed or was not reached the file is still present, and any
\* file the transcription does not write is as it was when the run began.
CleanupInvariant ==
    mainPc = "done" =>
       \A v \in dir : \A e \in ExtSet :
          EverOnDisk(v, e) =>
             /\ Inter(v, e) = Absent <=> embedEv[v] = "path"
             /\ (embedEv[v] # "path" /\ e # ".srt") =>
                   Inter(v, e) = inter0[InterPathOf[v][e]]

\* C4: every unit gives its permit back exactly once on every way out: the
\* free permits and the units inside the gate always add up to the
\* capacity, and once main has left gather all permits are free again.
PermitsReleased ==
    mainPc \in {"gather", "done"} =>
       /\ permits + Cardinality(InGate) = capacity
       /\ mainPc = "done" => permits = capacity

\* the run is over, one unit succeeded and another left the gate through
\* the exception handler
PermitsReleasedWitness ==
    /\ mainPc = "done"
    /\ permits = capacity
    /\ \E v \in dir : Outcome(v)
    /\ \E v \in dir : cleanEv[v] = "fault" \/ whisperEv[v] = "crash"

\* C5: when main has left gather, every discovered file has exactly one
\* recorded outcome, no other file has any, and every unit has finished.
ResultsComplete ==
    mainPc = "done" =>
       /\ \A v \in Videos : Len(results[v]) = IF v \in dir THEN 1 ELSE 0
       /\ \A v \in dir : Finished(v)

\* the run is over with as many files discovered as the directory can
\* hold, one unit having failed and one having succeeded
ResultsCompleteWitness ==
    /\ mainPc = "done"
    /\ Cardinality(dir) = MaxFiles
    /\ \E v \in dir : Outcome(v)
    /\ \E v \in dir : ~Outcome(v)

\* C6: when run_whisper_process reports failure for a file, the unit ends
\* with outcome false and the run has created no intermediate file of that
\* base name.
FailedTranscriptionLeavesNothing ==
    \A v \in dir :
       (Finished(v) /\ whisperEv[v] \in {"modelerr", "writeerr"}) =>
          /\ ~Outcome(v)
          /\ \A e \in ExtSet :
                inter0[InterPathOf[v][e]] = Absent => Inter(v, e) = Absent

\* what C7 promises for a unit: outcome false, no cleanup, subtitle kept
EmbeddingFailureHandled(v) ==
    /\ ~Outcome(v)
    /\ cleanEv[v] = "none"
    /\ Inter(v, ".srt") # Absent

\* C7 as stated: whenever the ffmpeg subprocess of a file wrote no output
\* file, the unit records false, cleanup is not run and the subtitle file
\* stays, whatever the directory held and whatever the other units did.
EmbeddingFailureKeepsSubtitle ==
    \A v \in dir :
       (Finished(v) /\ ffEv[v] = "nooutput") => EmbeddingFailureHandled(v)

\* C7 as amended: whenever the ffmpeg subprocess of a file wrote no output
\* file and no file was at the output path when the subprocess had ended,
\* the unit records false, cleanup is not run and the subtitle file stays.
EmbeddingFailureKeepsSubtitleIfNoFile ==
    \A v \in dir :
       (Finished(v) /\ ffEv[v] = "nooutput" /\ outAtCheck[v] = Absent) =>
          EmbeddingFailureHandled(v)

\* a unit whose subprocess wrote nothing has finished while its sibling,
\* which maps to the same output path, has not written that file
EmbeddingFailureWitness ==
    \E v \in dir :
       /\ Finished(v)
       /\ ffEv[v] = "nooutput"
       /\ outAtCheck[v] = Absent
       /\ \E w \in dir : w # v /\ OutputFileOf[w] = OutputFileOf[v]

\* C8: an error of os.remove does not leave the cleanup stage: a unit whose
\* embedding succeeded has outcome true whether or not a deletion raised.
CleanupBestEffort ==
    \A v \in dir : (Finished(v) /\ embedEv[v] = "path") => Outcome(v)

\* the letters and digits of a name, in order
AlnumOf(s) == SelectSeq(s, IsAlnum)
\* the ASCII letters and digits of a name, in order and in lower case
FoldedAlnumOf(s) == Lower(SelectSeq(s, IsAsciiAlnum))

SlugIdempotent ==
    idem.pc = "slugged" => idem.twice = idem.once

\* a name the slug changes, with a non-empty slug and an extension of more
\* than the dot
SlugIdempotentWitness ==
    /\ idem.pc = "slugged"
    /\ idem.once # <<>>
    /\ idem.once # idem.x
    /\ Len(idem.e) > 1
    /\ idem.twice = idem.once

\* C11: cleanup removes only what this run's transcription produced. A file
\* that was on disk when the run began is gone only if it is the subtitle
\* file that this run's transcription wrote again and whose video was then
\* cleaned up; no output video that was on disk is ever gone.
CleanupOnlyWhisperFiles ==
    /\ \A v \in Videos : \A e \in ExtSet :
          (inter0[InterPathOf[v][e]] # Absent /\ Inter(v, e) = Absent) =>
             (e = ".srt" /\ whisperEv[v] = "ok" /\ cleanEv[v] # "none")
    /\ \A p \in OutPaths : outv0[p] # Absent => outv[p] # Absent

\* nothing of the pipeline has happened: no task exists, no gate or pool has
\* been created, no outcome is recorded, no transcription was submitted, no
\* ffmpeg was started and the files are as they were
NoWorkDone ==
    /\ \A v \in Videos : pc[v] = "idle" /\ results[v] = <<>>
    /\ permits = 0 /\ capacity = 0 /\ poolSize = 0
    /\ \A v \in Videos : whisperEv[v] = "none" /\ ffEv[v] = "none"
    /\ \A v \in Videos : embedEv[v] = "none" /\ cleanEv[v] = "none"
    /\ inter = inter0 /\ outv = outv0

\* C12 as stated: when a required executable is absent the run ends before
\* any work: nothing of the pipeline has happened and no subprocess of any
\* kind has been launched.
AbortBeforeAnyWorkNoSubprocess ==
    (mainPc # "start" /\ launched # RequiredCmds) =>
       (mainPc = "aborted" /\ NoWorkDone /\ launched = {})

\* C12 as amended: when a required executable is absent the run ends before
\* any work: nothing of the pipeline has happened and no encoder subprocess
\* has been launched; the only subprocesses are the --version runs of the
\* dependency check for the commands that are installed.
AbortBeforeAnyWork ==
    (mainPc # "start" /\ launched # RequiredCmds) =>
       (mainPc = "aborted" /\ NoWorkDone /\ launched \subseteq RequiredCmds)

\* the run has ended for want of ffmpeg with videos waiting in the directory
AbortWitness ==
    /\ mainPc = "aborted"
    /\ launched = {"python3"}
    /\ Cardinality(dir) = MaxFiles

\* C13: when discovery finds no input file the run returns at once, without
\* an error and with nothing to report: main is at its early return, no
\* gate or pool has been created and no stage has run.
EmptyInputReturns ==
    /\ (dir = {} /\ mainPc \notin {"start", "aborted", "discover"}) =>
          mainPc = "empty"
    /\ mainPc = "empty" => (dir = {} /\ NoWorkDone)

\* main has returned for want of videos, with a file of an earlier run in
\* the directory
EmptyInputWitness ==
    /\ mainPc = "empty"
    /\ launched = RequiredCmds
    /\ \E p \in InterPaths : inter[p] = Old

\* ------------------------------------------------------------------------
\* format_timestamp and the subtitle file of run_whisper_process
\*
\* A time is given by its number n of milliseconds and stands for the float
\* n / 1000, the binary64 number nearest to that quotient. Numbers wider
\* than 32 bits are kept as sequences of bits.
\* ------------------------------------------------------------------------

\* bits of the significand of a Python float
SignificandBits == 53

RECURSIVE BitLen(_)
BitLen(q) == IF q = 0 THEN 0 ELSE 1 + BitLen(q \div 2)

\* the fraction bits of rho / 1000, most significant first, until the
\* significand is full, and the remainder left: <<bits, remainder>>
RECURSIVE FractionBits(_, _, _, _)
FractionBits(rho, kept, started, acc) ==
    IF kept >= SignificandBits \/ (rho = 0 /\ ~started) THEN <<acc, rho>>
    ELSE LET b == (2 * rho) \div 1000
             st == started \/ b = 1
         IN  FractionBits((2 * rho) % 1000, IF st THEN kept + 1 ELSE kept, st,
                          Append(acc, b))

\* bits (most significant first) plus one: <<bits, carry out>>
RECURSIVE Increment(_)
Increment(b) ==
    IF b = <<>> THEN << <<>>, 1 >>
    ELSE LET front == SubSeq(b, 1, Len(b) - 1)
         IN  IF b[Len(b)] = 0 THEN <<Append(front, 1), 0>>
             ELSE LET r == Increment(front) IN <<Append(r[1], 0), r[2]>>

\* the float n / 1000, rounded to nearest, ties to even: its integer part
\* and the bits of its fraction, most significant first
FloatOfMillis(n) ==
    LET q == n \div 1000
        g == FractionBits(n % 1000, BitLen(q), q > 0, <<>>)
        bits == g[1]
        guard == (2 * g[2]) \div 1000
        sticky == (2 * g[2]) % 1000 # 0
        lsb == IF bits = <<>> THEN q % 2 ELSE bits[Len(bits)]
        inc == Increment(bits)
    IN  IF guard = 1 /\ (sticky \/ lsb = 1)
        THEN [int |-> q + inc[2], frac |-> inc[1]]
        ELSE [int |-> q, frac |-> bits]

Reverse(s) == [k \in 1..Len(s) |-> s[Len(s) + 1 - k]]

RECURSIVE CarryBits(_)
CarryBits(c) == IF c = 0 THEN <<>> ELSE <<c % 2>> \o CarryBits(c \div 2)

\* bits (least significant first) times 1000
RECURSIVE Times1000(_, _)
Times1000(b, carry) ==
    IF b = <<>> THEN CarryBits(carry)
    ELSE <<(1000 * Head(b) + carry) % 2>>
         \o Times1000(Tail(b), (1000 * Head(b) + carry) \div 2)

RECURSIVE TrimHigh(_)
TrimHigh(b) ==
    IF b # <<>> /\ b[Len(b)] = 0 THEN TrimHigh(SubSeq(b, 1, Len(b) - 1)) ELSE b

RECURSIVE BitsValue(_)
BitsValue(b) == IF b = <<>> THEN 0 ELSE Head(b) + 2 * BitsValue(Tail(b))

\* int((seconds - int(seconds)) * 1000): the fraction times 1000 is rounded
\* to a float, ties to even, and then cut to an integer
Milliseconds(frac) ==
    LET s == Len(frac)
        p == TrimHigh(Times1000(Reverse(frac), 0))
        d == Len(p) - SignificandBits
        top == BitsValue(SubSeq(p, s + 1, Len(p)))
    IN  IF d <= 0 THEN top
        ELSE LET up == /\ p[d] = 1
                       /\ (\E k \in 1..(d - 1) : p[k] = 1) \/ p[d + 1] = 1
             IN  IF up /\ \A k \in (d + 1)..s : p[k] = 1 THEN top + 1 ELSE top

DigitChars == <<"0", "1", "2", "3", "4", "5", "6", "7", "8", "9">>

RECURSIVE Decimal(_)
Decimal(n) ==
    IF n < 10 THEN <<DigitChars[n + 1]>>
    ELSE Decimal(n \div 10) \o <<DigitChars[(n % 10) + 1]>>

\* the format specifications :02d and :03d
RECURSIVE ZeroPad(_, _)
ZeroPad(s, width) == IF Len(s) >= width THEN s ELSE ZeroPad(<<"0">> \o s, width)

\* HH:MM:SS,mmm from the parts
Stamp(h, m, sec, ms) ==
    ZeroPad(Decimal(h), 2) \o <<":">> \o ZeroPad(Decimal(m), 2) \o <<":">>
    \o ZeroPad(Decimal(sec), 2) \o <<",">> \o ZeroPad(Decimal(ms), 3)

\* format_timestamp(n / 1000): the two divmod and the subtraction are exact
\* on floats, the multiplication is not
format_timestamp(n) ==
    LET x == FloatOfMillis(n)
    IN  Stamp(x.int \div 3600, (x.int % 3600) \div 60, x.int % 60,
              Milliseconds(x.frac))

\* str.strip()
RECURSIVE StripSpace(_)
StripSpace(s) ==
    IF s # <<>> /\ Head(s) = " " THEN StripSpace(Tail(s))
    ELSE IF s # <<>> /\ s[Len(s)] = " " THEN StripSpace(SubSeq(s, 1, Len(s) - 1))
    ELSE s

Arrow == <<" ", "-", "-", ">", " ">>

\* the block line 107 writes for segment number i (counted from 0)
Block(i, segment) ==
    Decimal(i + 1) \o <<"\n">>
    \o format_timestamp(segment.start) \o Arrow \o format_timestamp(segment.end)
    \o <<"\n">> \o StripSpace(segment.text) \o <<"\n", "\n">>

\* the text the loop of lines 105-107 writes
RECURSIVE WrittenFrom(_, _)
WrittenFrom(i, segments) ==
    IF segments = <<>> THEN <<>>
    ELSE Block(i, Head(segments)) \o WrittenFrom(i + 1, Tail(segments))

\* the times of the segments considered, in milliseconds: 0.0, 1.001, 1.234,
\* 1.5, 2.0 and 3661.001 seconds
SegmentTimes == {0, 1001, 1234, 1500, 2000, 3661001}
SegmentTexts == { <<"H", "i">>, <<" ", "B", "y", "e", " ">> }
Segments ==
    {[start |-> a, end |-> b, text |-> t] :
        a \in SegmentTimes, b \in SegmentTimes, t \in SegmentTexts}
SegmentLists ==
    UNION {[1..k -> {g \in Segments : g.start <= g.end}] : k \in 0..MaxSegs}

SubtitleInit ==
    /\ PipeOff
    /\ nam = NamOff
    /\ idem = IdemOff
    /\ \E l \in SegmentLists : srt = [pc |-> "input", segments |-> l, file |-> <<>>]

\* lines 104-107 with result["segments"] = srt.segments
WriteSubtitles ==
    /\ srt.pc = "input"
    /\ srt' = [srt EXCEPT !.pc = "written", !.file = WrittenFrom(0, srt.segments)]
    /\ UNCHANGED <<pipeVars, nam, idem>>

SubtitleNext == WriteSubtitles

SubtitleSpec == SubtitleInit /\ [][SubtitleNext]_vars

\* HH:MM:SS,mmm of a time of n milliseconds, cut to the millisecond
StampOfMillis(n) ==
    Stamp(n \div 3600000, (n \div 60000) % 60, (n \div 1000) % 60, n % 1000)

RECURSIVE ExpectedFrom(_, _)
ExpectedFrom(i, segments) ==
    IF segments = <<>> THEN <<>>
    ELSE Decimal(i) \o <<"\n">>
         \o StampOfMillis(Head(segments).start) \o Arrow
         \o StampOfMillis(Head(segments).end)
         \o <<"\n">> \o StripSpace(Head(segments).text) \o <<"\n", "\n">>
         \o ExpectedFrom(i + 1, Tail(segments))

\* C14: the subtitle file holds one block per segment, in input order,
\* numbered 1, 2, 3, ..., each with the start and end times as HH:MM:SS,mmm
\* cut to the millisecond and with the trimmed text.
SubtitleEncodingExact ==
    srt.pc = "written" => srt.file = ExpectedFrom(1, srt.segments)

\* the segments of the example of the specification and their encoding
ExampleSegments ==
    << [start |-> 0, end |-> 1234, text |-> <<"H", "i">>],
       [start |-> 1500, end |-> 2000, text |-> <<" ", "B", "y", "e", " ">>] >>
ExampleFile ==
    <<"1", "\n", "0","0",":","0","0",":","0","0",",","0","0","0",
      " ","-","-",">"," ", "0","0",":","0","0",":","0","1",",","2","3","4",
      "\n", "H","i", "\n", "\n",
      "2", "\n", "0","0",":","0","0",":","0","1",",","5","0","0",
      " ","-","-",">"," ", "0","0",":","0","0",":","0","2",",","0","0","0",
      "\n", "B","y","e", "\n", "\n">>

\* the example of the specification is encoded as the specification says
ExampleEncoded ==
    (srt.pc = "written" /\ srt.segments = ExampleSegments) => srt.file = ExampleFile

\* the status of the task of v
Status(v) ==
    CASE pc[v] \in {"idle", "pending"} -> "Pending"
      [] pc[v] \in {"queued", "running"} -> "Transcribing"
      [] pc[v] = "transcribed" ->
            IF Raised(v) \/ NoSubtitle(v) THEN "Transcribing" ELSE "Transcribed"
      [] pc[v] \in {"embedding", "exited"} -> "Embedding"
      [] OTHER -> IF Outcome(v) THEN "Embedded" ELSE "Failed"

StatusPaths ==
    { <<"Pending", "Transcribing">>, <<"Transcribing", "Transcribed">>,
      <<"Transcribed", "Embedding">>, <<"Embedding", "Embedded">> }

StageStep(v) ==
    /\ Status(v)' # Status(v) =>
          \/ <<Status(v), Status(v)'>> \in StatusPaths
          \/ Status(v)' = "Failed" /\ Status(v) \notin {"Embedded", "Failed"}
    \* embedding is started, or its launch attempted, after a successful
    \* transcription only
    /\ (Status(v)' = "Embedding" \/ embedEv'[v] # "none") =>
          (whisperEv'[v] = "ok" /\ whisperEv[v] = "ok")
    \* the encoder runs while the task is in its embedding stage only
    /\ (ffEv'[v] # ffEv[v] \/ embedEv'[v] # embedEv[v]) =>
          Status(v) \in {"Transcribed", "Embedding"}
    \* cleanup starts after embedding has reported success only
    /\ cleanEv'[v] # cleanEv[v] => (Status(v) = "Embedding" /\ embedEv'[v] = "path")
    /\ (\E e \in ExtSet : inter'[InterPathOf[v][e]] = Absent
                          /\ inter[InterPathOf[v][e]] # Absent) =>
          (Status(v) = "Embedding" /\ embedEv'[v] = "path")
    \* nothing runs for a task that has ended
    /\ Status(v) \in {"Failed", "Embedded"} =>
          /\ pc'[v] = pc[v] /\ results'[v] = results[v]
          /\ whisperEv'[v] = whisperEv[v] /\ ffEv'[v] = ffEv[v]
          /\ embedEv'[v] = embedEv[v] /\ cleanEv'[v] = cleanEv[v]
          /\ \A e \in ExtSet : inter'[InterPathOf[v][e]] = inter[InterPathOf[v][e]]

\* C15: for every file, embedding starts only after its transcription has
\* succeeded, cleanup only after its embedding has reported success, nothing
\* runs for a task that has failed, and the status moves along Pending,
\* Transcribing, Transcribed, Embedding, Embedded or to Failed, where it stays.
StageOrder == [][\A v \in Videos : StageStep(v)]_vars

\* one task went through every stage and another failed at embedding
StageOrderWitness ==
    \E v \in dir, w \in dir :
       /\ Status(v) = "Embedded" /\ cleanEv[v] = "ran"
       /\ Status(w) = "Failed" /\ embedEv[w] = "none_returned"
       /\ mainPc = "done"

\* C16: once the encoder subprocess has ended, embedding reports success
\* exactly when a file exists at the output path at that moment, whatever
\* the exit status and whoever wrote the file; when the launch of the
\* subprocess raises, it reports failure.
EmbeddingSuccessSignal ==
    \A v \in Videos :
       /\ embedEv[v] \in {"path", "none_returned"} =>
             /\ ffEv[v] # "none" /\ ffExit[v] # "none"
             /\ embedEv[v] = "path" <=> outAtCheck[v] # Absent
       /\ embedEv[v] = "launchfail" =>
             /\ ffEv[v] = "none" /\ cleanEv[v] = "none"
             /\ Finished(v) /\ ~Outcome(v)

\* success reported for an encoder that failed and wrote nothing, on a file
\* that was there before; success and failure reported after a failing
\* encoder; a launch that raised
EmbeddingSignalWitness ==
    /\ \E v \in dir :
          /\ embedEv[v] = "path" /\ ffExit[v] = "nonzero"
          /\ ffEv[v] = "nooutput" /\ outAtCheck[v] = Old
    /\ \E w \in dir : embedEv[w] \in {"launchfail", "none_returned"}

\* the files a unit writes, checks for existence or deletes
FilesOf(v) ==
    {<<"intermediate", InterPathOf[v][e]>> : e \in ExtSet}
       \cup {<<"output", OutputFileOf[v]>>}

\* the embedding of v reported success on a file written during the run
\* that its own encoder did not write
RestsOnForeignFile(v) ==
    embedEv[v] = "path" /\ ffEv[v] = "nooutput" /\ outAtCheck[v] = New

GateAndPoolMatched ==
    mainPc \in {"gather", "done"} =>
       /\ capacity = Min(cpu_count, Ceiling)
       /\ poolSize = capacity
       /\ Cardinality(InPool) <= poolSize
       /\ \A v \in Videos : (pc[v] = "queued" /\ ~poolBroken) => Busy < poolSize

\* as many calls are in the pool as it has workers, one running and one
\* just submitted
GateAndPoolWitness ==
    /\ mainPc = "gather"
    /\ Cardinality(InPool) = poolSize
    /\ \E v \in dir : pc[v] = "queued"
    /\ \E w \in dir : pc[w] = "running"

\* ------------------------------------------------------------------------
\* Fair scheduling: the event loop runs every task that is ready, the pool
\* gives a submitted call to a free worker, and every transcription call and
\* every ffmpeg subprocess ends. A crash of a worker is never required.
\* ------------------------------------------------------------------------

\* the steps of the run other than the crash of a worker
Scheduled ==
    \/ CheckDependencies
    \/ Discover
    \/ GatherReturn
    \/ \E v \in Videos : Acquire(v)
    \/ \E v \in Videos : WorkerPickup(v)
    \/ \E v \in Videos : WhisperRun(v)
    \/ \E v \in Videos : TranscribeReturn(v)
    \/ \E v \in Videos : FfmpegExit(v)
    \/ \E v \in Videos : EmbedReturn(v)

\* each of these steps is taken when it stays possible
Fairness ==
    /\ WF_vars(Scheduled)
    /\ \A v \in Videos :
          /\ WF_vars(Acquire(v))
          /\ WF_vars(WorkerPickup(v))
          /\ WF_vars(WhisperRun(v))
          /\ WF_vars(TranscribeReturn(v))
          /\ WF_vars(FfmpegExit(v))
          /\ WF_vars(EmbedReturn(v))

FairSpec == Spec /\ Fairness

Terminated == mainPc \in {"done", "aborted", "empty"}

\* C19: when every transcription call and every encoder subprocess ends,
\* under fair scheduling every unit that waits for a permit acquires one,
\* every unit records its outcome and the run ends, also with more input
\* files than the semaphore has permits.
TerminationNoStarvation ==
    /\ \A v \in Videos : (pc[v] = "pending") ~> (pc[v] = "done")
    /\ <>(/\ Terminated
          /\ \A v \in dir : mainPc = "done" => (pc[v] = "done" /\ Len(results[v]) = 1)
          /\ \A v \in Videos : pc[v] # "pending")

\* a run with more files than permits has ended with every outcome recorded
TerminationWitness ==
    /\ mainPc = "done"
    /\ Cardinality(dir) > capacity
    /\ \A v \in dir : Len(results[v]) = 1

====
